---- MODULE Spec2Model ----
(***************************************************************************)
(* A model of server_utils/auto/RequestHandler.py: the daemon that drains  *)
(* a directory of request files and drives SafeUpdater.                    *)
(*                                                                         *)
(* Four specifications are defined over the same state and actions:        *)
(*   Spec      one RequestHandler whose notifier delivers the event that   *)
(*             process_IN_CLOSE_WRITE is named for;                        *)
(*   SpecTwo   two such handlers (two daemon processes) sharing the        *)
(*             requests directory and the repositories;                    *)
(*   SpecLink  Spec on a directory in which symbolic links are made too;   *)
(*   SpecMain  the process exactly as main() and watch_forever() build it. *)
(***************************************************************************)
EXTENDS Integers, Sequences, FiniteSets, TLC

\* ------------------------------------------------------------------ bounds

\* Capacity of a notifier's queue of undelivered events.
MaxEvents == 1

\* Longest task list of a contest manifest (module.yaml) that is enumerated.
MaxManifestLen == 2

\* ------------------------------------------------------- values of the model

\* Daemon processes.  Spec and SpecMain run daemon 1 only.
Daemons == {1, 2}

\* The requests directory (server_utils.config.REQUESTS_DIR, made absolute).
REQUESTS_DIR == "requests"

\* File names are strings, modelled as the sequences of their character
\* codes: "1", "10" and "9".
Names == {<<49>>, <<49, 48>>, <<57>>}

\* ".lock", the file of the flufl lock of the requests directory: it is in
\* the directory for as long as some process holds the lock.
LockFile == <<46, 108, 111, 99, 107>>

\* The names the producers of Spec write ("10" and "9") and the name the
\* producers of SpecTwo write.
NamesOne == {<<49, 48>>, <<57>>}
NamesTwo == {<<57>>}

\* Repository names are strings of the form "<type>/<rest>", modelled as the
\* sequence of their "/"-separated segments.
ContestA == <<"contests", "A">>
ContestB == <<"contests", "B">>
ContestC == <<"contests", "C">>
ContestZ == <<"contests", "Z">>
TaskT == <<"tasks", "T">>
TaskO == <<"tasks", "O">>
UsersRepo == <<"users", "u">>
WidgetsRepo == <<"widgets", "x">>

\* server_utils.config.ACTIVE_CONTESTS
ACTIVE_CONTESTS == {ContestA, ContestB, ContestC}

\* Values of a request's "user" and "repo" entries.  A key that is not in
\* the dictionary is Missing, a value that is not a string is NonString;
\* both are kept apart from every string by their shape.
Missing == <<"<missing>">>
NonString == <<"<nonstring>">>
UserName == <<"user1">>

Repos == {ContestA, ContestZ, TaskT, UsersRepo, WidgetsRepo}

\* What yaml.safe_load can return for a request file: something that is not
\* a dictionary, or a dictionary.
NotDict == [type |-> "other"]
Dict(user, repo) == [type |-> "dict", user |-> user, repo |-> repo]

Requests ==
    {NotDict}
    \cup {Dict(u, ContestA) : u \in {Missing, NonString}}
    \cup {Dict(UserName, r) : r \in {Missing, NonString} \cup Repos}

\* The contents the request files of SpecTwo are drawn from.
RequestsTwo == {NotDict, Dict(UserName, TaskT)}

\* No request has been read.
None == [type |-> "none"]

\* Task lists of a contest manifest: the "path" of each entry.
TaskPaths == {TaskT, TaskO}

RECURSIVE SeqsUpTo(_, _)
SeqsUpTo(S, n) ==
    IF n = 0 THEN {<<>>}
    ELSE LET shorter == SeqsUpTo(S, n - 1)
         IN  shorter \cup {Append(s, x) : s \in shorter, x \in S}

ManifestLists == SeqsUpTo(TaskPaths, MaxManifestLen)

\* The task lists the manifests of SpecTwo are drawn from.
ManifestListsTwo == {<<>>, <<TaskT>>}

\* ------------------------------------------------------------ pure functions

\* Python's string comparison a < b: lexicographic by character code, a
\* proper prefix being smaller.
\* (StrLessShorterFirst is the mutant: the shorter string first, as numbers
\* compare.)
StrLessShorterFirst(a, b) ==
    IF Len(a) # Len(b) THEN Len(a) < Len(b)
    ELSE \E k \in 1 .. Len(a) :
            a[k] < b[k] /\ \A i \in 1 .. k - 1 : a[i] = b[i]

RECURSIVE StrLess(_, _)
StrLess(a, b) ==
    IF b = <<>> THEN FALSE
    ELSE IF a = <<>> THEN TRUE
    ELSE IF Head(a) # Head(b) THEN Head(a) < Head(b)
    ELSE StrLess(Tail(a), Tail(b))

\* os.path.join(self.dir, name), and the parts of such a path.
Join(dir_, name) == <<dir_, name>>
Basename(path) == path[2]

\* os.path.abspath(path): the path made absolute and normal by its text
\* alone; a symbolic link is not followed.
Abspath(path) == Join(path[1], path[2])

\* Where an entry of the directory resolves to (os.path.realpath) when it is
\* a symbolic link: a file in another directory.
Elsewhere(name) == Join("elsewhere", name)

\* path.startswith(self.dir)
StartsWith(path, dir_) == path[1] = dir_

\* Paths of one directory compare as their names do.
PathLess(p, q) == StrLess(Basename(p), Basename(q))

\* All orders in which a set can be enumerated (os.listdir, iteration of a
\* Python set).
RECURSIVE Orders(_)
Orders(S) ==
    IF S = {} THEN {<<>>}
    ELSE UNION {{<<x>> \o rest : rest \in Orders(S \ {x})} : x \in S}

\* list.sort(): insertion of each element at its place.
RECURSIVE Insert(_, _)
Insert(x, sorted) ==
    IF sorted = <<>> THEN <<x>>
    ELSE IF PathLess(x, Head(sorted)) THEN <<x>> \o sorted
    ELSE <<Head(sorted)>> \o Insert(x, Tail(sorted))

RECURSIVE Sort(_)
Sort(list) ==
    IF list = <<>> THEN <<>>
    ELSE Insert(Head(list), Sort(Tail(list)))

\* repo.split("/")[0]
RepoType(repo) == repo[1]

\* (ValidateRequestAnyType is the mutant: the repository type is not
\* looked at.)
ValidateRequestAnyType(request) ==
    /\ request.type = "dict"
    /\ request.user # Missing
    /\ request.user # NonString
    /\ request.repo # Missing
    /\ request.repo # NonString

\* RequestHandler._validate_request: TRUE when no exception is raised.
ValidateRequest(request) ==
    /\ request.type = "dict"
    /\ request.user # Missing
    /\ request.user # NonString
    /\ request.repo # Missing
    /\ request.repo # NonString
    /\ RepoType(request.repo) \in {"tasks", "contests", "users"}

\* The inner loop of _get_task_contests: one entry of the result for every
\* entry of the task list whose path is task_repo.
RECURSIVE ContestEntries(_, _, _)
ContestEntries(contest, tasks, task_repo) ==
    IF tasks = <<>> THEN <<>>
    ELSE (IF Head(tasks) = task_repo THEN <<contest>> ELSE <<>>)
         \o ContestEntries(contest, Tail(tasks), task_repo)

\* RequestHandler._get_task_contests, the contests iterated in the order
\* given and their manifests as read.
RECURSIVE GetTaskContests(_, _, _)
GetTaskContests(order, manifests, task_repo) ==
    IF order = <<>> THEN <<>>
    ELSE ContestEntries(Head(order), manifests[Head(order)], task_repo)
         \o GetTaskContests(Tail(order), manifests, task_repo)

\* The calls on SafeUpdater, with their arguments.
UpdateContestCall(contest, update_users) ==
    [op |-> "update_contest", id |-> contest, update |-> TRUE,
     generate_new |-> TRUE, update_users |-> update_users]
UpdateUsersCall == [op |-> "update_users"]
GenerateTaskCall(task) ==
    [op |-> "generate_task", id |-> task, update |-> TRUE, allow_clone |-> TRUE]

\* --------------------------------------------------------------------- state

VARIABLES
    entries,        \* the requests directory: name -> "absent" | "open" | "closed",
                    \* or "link" for a symbolic link to a file elsewhere
    leftover,       \* request files present when the process started, ...
    written,        \* ... and files whose writing ended under a watch, that
                    \* have not been handled or removed since
    requests_lock,  \* holder of the ".lock" of the requests directory, 0 if free
    updater_lock,   \* holder of SafeUpdater's repository lock, 0 if free
    handler         \* per daemon: the RequestHandler and the point it has reached

vars == <<entries, leftover, written, requests_lock, updater_lock, handler>>

NoManifest == [c \in ACTIVE_CONTESTS |-> 0]

\* A process that has not yet constructed its RequestHandler.
Unstarted ==
    [mainpc |-> "start", dir |-> "", contests |-> {}, wmask |-> {},
     events |-> <<>>, pc |-> "idle", files_list |-> <<>>, index |-> 0,
     request |-> None, success |-> TRUE, raised |-> FALSE,
     task_contests |-> <<>>, calls |-> <<>>, listed |-> NoManifest,
     outcome |-> "none", scopes |-> 0, present |-> {}, trace |-> <<>>,
     sleeps |-> 0]

\* A handler after my_init, inside the loop of a notifier that watches its
\* directory for the events in mask.
Watching(mask) ==
    [Unstarted EXCEPT !.mainpc = "loop", !.dir = REQUESTS_DIR,
                      !.contests = ACTIVE_CONTESTS, !.wmask = mask]

\* The handler methods pyinotify can dispatch to: process_<maskname>.
HandlerMethods == {"IN_CLOSE_WRITE"}

\* The mask watch_forever passes to add_watch.
WatchMask == {"IN_CREATE"}

Set(p, h) == handler' = [handler EXCEPT ![p] = h]

\* The history of a drain (present, trace, sleeps) is kept by the
\* specifications whose properties read it (keep = TRUE); it is written and
\* never read by the handler, so leaving it out changes no behaviour.
Kept(keep, old, new) == IF keep THEN new ELSE old

\* The file at the daemon's place in files_list.
Path(p) == handler[p].files_list[handler[p].index + 1]

\* os.path.isfile, which follows symbolic links.
IsFile(path) ==
    IF Basename(path) = LockFile THEN requests_lock # 0
    ELSE entries[Basename(path)] # "absent"

\* os.listdir(self.dir): the names present.
ListDir ==
    {f \in Names : entries[f] # "absent"}
    \cup (IF requests_lock # 0 THEN {LockFile} ELSE {})

\* What yaml.safe_load can return for the file at the path: the lock file
\* holds one line of text, which is no dictionary; a request file holds
\* one of the contents its producers write.
Contents(path, written_) ==
    IF Basename(path) = LockFile THEN {NotDict} ELSE written_

\* -------------------------------------------------------------- environment

\* The kernel queues an event of the given kind for every notifier whose
\* watch asks for that kind.
Queued(kind) ==
    [q \in Daemons |->
        IF kind \in handler[q].wmask
        THEN [handler[q] EXCEPT !.events = Append(@, kind)]
        ELSE handler[q]]

\* Some process is inside notifier.loop().
Watched == \E q \in Daemons : handler[q].mainpc = "loop"

Room(kind) ==
    \A q \in Daemons :
        kind \in handler[q].wmask => Len(handler[q].events) < MaxEvents

\* A producer creates a request file and starts writing it.
Create(f) ==
    /\ entries[f] = "absent"
    /\ Room("IN_CREATE")
    /\ entries' = [entries EXCEPT ![f] = "open"]
    /\ handler' = Queued("IN_CREATE")
    /\ UNCHANGED <<leftover, written, requests_lock, updater_lock>>

\* The producer finishes writing the file and closes it.
CloseWrite(f) ==
    /\ entries[f] = "open"
    /\ Room("IN_CLOSE_WRITE")
    /\ entries' = [entries EXCEPT ![f] = "closed"]
    /\ handler' = Queued("IN_CLOSE_WRITE")
    /\ written' = IF Watched THEN written \cup {f} ELSE written
    /\ UNCHANGED <<leftover, requests_lock, updater_lock>>

\* Some process makes a symbolic link in the directory to a file elsewhere.
Link(f) ==
    /\ entries[f] = "absent"
    /\ Room("IN_CREATE")
    /\ entries' = [entries EXCEPT ![f] = "link"]
    /\ handler' = Queued("IN_CREATE")
    /\ UNCHANGED <<leftover, written, requests_lock, updater_lock>>

\* ------------------------------------------------------------------- main()

\* handler = RequestHandler(): my_init.
MyInit(p) ==
    /\ handler[p].mainpc = "start"
    /\ Set(p, [handler[p] EXCEPT !.mainpc = "init", !.dir = REQUESTS_DIR,
                                 !.contests = ACTIVE_CONTESTS])
    /\ UNCHANGED <<entries, leftover, written, requests_lock, updater_lock>>

\* handler.watch_forever(): add the watch and enter notifier.loop().
WatchForever(p) ==
    /\ handler[p].mainpc = "init"
    /\ Set(p, [handler[p] EXCEPT !.mainpc = "loop", !.wmask = WatchMask])
    /\ UNCHANGED <<entries, leftover, written, requests_lock, updater_lock>>

\* (NotifierLoopAnyTime is the mutant: an event is served while the handler
\* of an earlier one is still running.)
NotifierLoopAnyTime(p) ==
    /\ handler[p].mainpc = "loop"
    /\ handler[p].pc \in {"idle", "sleep"}
    /\ handler[p].events # <<>>
    /\ Set(p, [handler[p] EXCEPT
                 !.events = Tail(@),
                 !.pc = IF Head(handler[p].events) \in HandlerMethods
                        THEN "list" ELSE "idle"])
    /\ UNCHANGED <<entries, leftover, written, requests_lock, updater_lock>>

\* One turn of notifier.loop(): the next event goes to the method named
\* for it, process_IN_CLOSE_WRITE, which calls handle_existing_requests; an
\* event with no such method goes to process_default, which does nothing.
NotifierLoop(p) ==
    /\ handler[p].mainpc = "loop"
    /\ handler[p].pc = "idle"
    /\ handler[p].events # <<>>
    /\ Set(p, [handler[p] EXCEPT
                 !.events = Tail(@),
                 !.pc = IF Head(handler[p].events) \in HandlerMethods
                        THEN "list" ELSE "idle"])
    /\ UNCHANGED <<entries, leftover, written, requests_lock, updater_lock>>

\* --------------------------------------------- handle_existing_requests

\* The start of handle_existing_requests: list the directory (in whatever
\* order the system gives), make full paths, keep the files, sort.
ListRequests(p, keep) ==
    /\ handler[p].pc = "list"
    /\ \E names \in Orders(ListDir) :
         LET paths == [i \in DOMAIN names |-> Join(handler[p].dir, names[i])]
             files == SelectSeq(paths, IsFile)
         IN  Set(p, [handler[p] EXCEPT
                       !.files_list = Sort(files), !.index = 0,
                       !.present = Kept(keep, @, ListDir),
                       !.trace = <<>>, !.sleeps = 0,
                       !.pc = "loop"])
    /\ UNCHANGED <<entries, leftover, written, requests_lock, updater_lock>>

\* The head of the for loop: call handle_request on the next path, or
\* return to the notifier when the list is exhausted.
LoopNext(p, keep) ==
    /\ handler[p].pc = "loop"
    /\ IF handler[p].index < Len(handler[p].files_list)
       THEN /\ Set(p, [handler[p] EXCEPT
                         !.pc = "lock", !.request = None, !.success = TRUE,
                         !.outcome = "none", !.scopes = 0,
                         !.trace = Kept(keep, @,
                                         Append(@, <<"handle", Path(p)>>))])
            /\ leftover' = leftover \ {Basename(Path(p))}
            /\ written' = written \ {Basename(Path(p))}
       ELSE /\ Set(p, [handler[p] EXCEPT
                         !.pc = "idle", !.files_list = <<>>, !.index = 0,
                         !.request = None, !.outcome = "none", !.scopes = 0,
                         !.present = {}, !.trace = <<>>, !.sleeps = 0])
            /\ UNCHANGED <<leftover, written>>
    /\ UNCHANGED <<entries, requests_lock, updater_lock>>

\* _get_request_content: lock.lock(timeout=...) succeeds.
LockRequests(p) ==
    /\ handler[p].pc = "lock"
    /\ requests_lock = 0
    /\ requests_lock' = p
    /\ Set(p, [handler[p] EXCEPT !.pc = "read"])
    /\ UNCHANGED <<entries, leftover, written, updater_lock>>

\* (LockTimeoutUncaught is the mutant: the TimeoutError is not caught and
\* ends the process.)
LockTimeoutUncaught(p) ==
    /\ handler[p].pc = "lock"
    /\ Set(p, [handler[p] EXCEPT !.pc = "exit", !.mainpc = "exit",
                                 !.success = FALSE, !.outcome = "timeout"])
    /\ UNCHANGED <<entries, leftover, written, requests_lock, updater_lock>>

\* _get_request_content: lock.lock raises TimeoutError (another process,
\* a producer or a daemon, kept the lock); handle_request returns False.
LockTimeout(p) ==
    /\ handler[p].pc = "lock"
    /\ Set(p, [handler[p] EXCEPT !.pc = "delete", !.success = FALSE,
                                 !.outcome = "timeout"])
    /\ UNCHANGED <<entries, leftover, written, requests_lock, updater_lock>>

\* (ReadRequestKeepsLock is the mutant: the lock is released only when the
\* file was read and parsed.)
ReadRequestKeepsLock(p, contents) ==
    /\ handler[p].pc = "read"
    /\ \E readable \in BOOLEAN, content \in Contents(Path(p), contents) :
         IF readable /\ IsFile(Path(p)) /\ requests_lock = p
         THEN /\ Set(p, [handler[p] EXCEPT !.pc = "validate",
                                           !.request = content])
              /\ requests_lock' = 0
         ELSE /\ Set(p, [handler[p] EXCEPT !.pc = "delete", !.success = FALSE,
                                           !.outcome = "unread"])
              /\ UNCHANGED requests_lock
    /\ UNCHANGED <<entries, leftover, written, updater_lock>>

\* _get_request_content under the lock: open and parse the file, unlock in
\* any case.  The file holds whatever its producer wrote; a file that is
\* gone, unreadable or not YAML raises, and so does lock.unlock() when the
\* lock file was removed meanwhile; handle_request then returns False.
ReadRequest(p, contents) ==
    /\ handler[p].pc = "read"
    /\ requests_lock' = IF requests_lock = p THEN 0 ELSE requests_lock
    /\ \E readable \in BOOLEAN, content \in Contents(Path(p), contents) :
         IF readable /\ IsFile(Path(p)) /\ requests_lock = p
         THEN Set(p, [handler[p] EXCEPT !.pc = "validate", !.request = content])
         ELSE Set(p, [handler[p] EXCEPT !.pc = "delete", !.success = FALSE,
                                       !.outcome = "unread"])
    /\ UNCHANGED <<entries, leftover, written, updater_lock>>

\* (ValidateKeepsInvalid is the mutant: a request that fails validation is
\* left in the directory.)
ValidateKeepsInvalid(p) ==
    /\ handler[p].pc = "validate"
    /\ IF ValidateRequest(handler[p].request)
       THEN Set(p, [handler[p] EXCEPT !.pc = "act"])
       ELSE Set(p, [handler[p] EXCEPT !.pc = "loop", !.index = @ + 1,
                                     !.trace = Append(@, <<"missing", Path(p)>>),
                                     !.success = FALSE, !.request = None])
    /\ UNCHANGED <<entries, leftover, written, requests_lock, updater_lock>>

\* handle_request: _validate_request, False when it raises.
Validate(p) ==
    /\ handler[p].pc = "validate"
    /\ IF ValidateRequest(handler[p].request)
       THEN Set(p, [handler[p] EXCEPT !.pc = "act"])
       ELSE Set(p, [handler[p] EXCEPT !.pc = "delete", !.success = FALSE,
                                     !.request = None, !.outcome = "invalid"])
    /\ UNCHANGED <<entries, leftover, written, requests_lock, updater_lock>>

\* --------------------------------------------------------------------- _act

\* SafeUpdater's exclusive scope: entering waits until no process holds it,
\* and leaving releases it on every exit path.
ScopeFree == updater_lock = 0
ScopeHeldBy(p) == updater_lock = p

\* (EnterUpdaterNoWait is the mutant: the updater is used without waiting
\* for its scope.)
EnterUpdaterNoWait(p) ==
    /\ handler[p].pc = "act"
    /\ updater_lock' = p
    /\ Set(p, [handler[p] EXCEPT !.pc = "dispatch", !.calls = <<>>,
                                 !.raised = FALSE, !.scopes = @ + 1])
    /\ UNCHANGED <<entries, leftover, written, requests_lock>>

\* _act: "with SafeUpdater() as updater" is entered.
EnterUpdater(p) ==
    /\ handler[p].pc = "act"
    /\ ScopeFree
    /\ updater_lock' = p
    /\ Set(p, [handler[p] EXCEPT !.pc = "dispatch", !.calls = <<>>,
                                 !.raised = FALSE, !.scopes = @ + 1])
    /\ UNCHANGED <<entries, leftover, written, requests_lock>>

\* Where _update_safely goes after a call that returned: on to the contests
\* still to update, or back to _act.
AfterCall(rest) == IF rest = <<>> THEN "leave" ELSE "contests"

\* A call on the updater: it is recorded with whether the scope was held,
\* and either returns (ok) or raises, which ends _update_safely.
Called(h, call, ok, next) ==
    [h EXCEPT !.calls = Append(@, call), !.raised = ~ok,
              !.pc = IF ok THEN next ELSE "leave"]

\* How many entries of a task list have the given path.
Listings(tasks, task_repo) ==
    Cardinality({i \in DOMAIN tasks : tasks[i] = task_repo})

\* (Mutants of ContestsBranch: the contest is updated without its users;
\* the contest is updated whether or not it is active.)
ContestsBranchWithoutUsers(p, repo, ok) ==
    IF repo \in handler[p].contests
    THEN Called(handler[p], UpdateContestCall(repo, FALSE), ok, "leave")
    ELSE [handler[p] EXCEPT !.pc = "leave", !.outcome = "inactive"]

ContestsBranchAnyContest(p, repo, ok) ==
    Called(handler[p], UpdateContestCall(repo, TRUE), ok, "leave")

\* _update_safely, repo_type == "contests".
ContestsBranch(p, repo, ok) ==
    IF repo \in handler[p].contests
    THEN Called(handler[p], UpdateContestCall(repo, TRUE), ok, "leave")
    ELSE [handler[p] EXCEPT !.pc = "leave", !.outcome = "inactive"]

\* (UsersBranchSkipsOne is the mutant: the loop misses the first contest.)
UsersBranchSkipsOne(p, ok, order) ==
    [Called(handler[p], UpdateUsersCall, ok, AfterCall(Tail(order)))
        EXCEPT !.task_contests = IF ok THEN Tail(order) ELSE <<>>]

\* _update_safely, repo_type == "users": update_users, then the loop over
\* self.contests is entered (in the order the set iterates).
UsersBranch(p, ok, order) ==
    [Called(handler[p], UpdateUsersCall, ok, AfterCall(order))
        EXCEPT !.task_contests = IF ok THEN order ELSE <<>>]

\* _update_safely, repo_type == "tasks": _get_task_contests reads the
\* manifests, or raises (found = FALSE) when one cannot be read.
TasksBranch(p, repo, found, manifests, order) ==
    LET result == GetTaskContests(order, manifests, repo)
        h == [handler[p] EXCEPT
                !.listed = [c \in ACTIVE_CONTESTS |->
                              Listings(manifests[c], repo)]]
    IN  IF ~found THEN [handler[p] EXCEPT !.pc = "leave", !.raised = TRUE]
        ELSE IF result = <<>>
             THEN [h EXCEPT !.pc = "leave", !.outcome = "inactive"]
             ELSE [h EXCEPT !.pc = "generate", !.task_contests = result]

\* The ways _update_safely can go up to its first call on the updater: the
\* call returns or raises (ok), the set self.contests iterates in some
\* order, and the manifests that _get_task_contests reads hold task lists
\* out of lists.
Dispatched(p, lists) ==
    LET repo == handler[p].request.repo
        repo_type == RepoType(repo)
        orders == Orders(handler[p].contests)
    IN  CASE repo_type = "contests" ->
                {ContestsBranch(p, repo, ok) : ok \in BOOLEAN}
          [] repo_type = "users" ->
                {UsersBranch(p, ok, order) : ok \in BOOLEAN, order \in orders}
          [] repo_type = "tasks" ->
                {TasksBranch(p, repo, ok, manifests, order) :
                    ok \in BOOLEAN, order \in orders,
                    manifests \in [ACTIVE_CONTESTS -> lists]}
          [] OTHER ->
                {[handler[p] EXCEPT !.pc = "leave", !.raised = TRUE]}

\* _update_safely up to its first call on the updater.
UpdateSafely(p, lists) ==
    /\ handler[p].pc = "dispatch"
    /\ \E h \in Dispatched(p, lists) : Set(p, h)
    /\ UNCHANGED <<entries, leftover, written, requests_lock, updater_lock>>

\* _update_safely, tasks: generate_task.
GenerateTask(p) ==
    /\ handler[p].pc = "generate"
    /\ \E ok \in BOOLEAN :
         Set(p, Called(handler[p], GenerateTaskCall(handler[p].request.repo),
                       ok, "contests"))
    /\ UNCHANGED <<entries, leftover, written, requests_lock, updater_lock>>

\* (UpdateContestsGoesOn is the mutant: a call that raises does not end the
\* loop.)
UpdateContestsGoesOn(p) ==
    /\ handler[p].pc = "contests"
    /\ LET contest == Head(handler[p].task_contests)
           rest == Tail(handler[p].task_contests)
       IN  \E ok \in BOOLEAN :
             Set(p, [handler[p] EXCEPT
                       !.calls = Append(@, UpdateContestCall(contest, FALSE)),
                       !.raised = ~ok,
                       !.pc = AfterCall(rest),
                       !.task_contests = rest])
    /\ UNCHANGED <<entries, leftover, written, requests_lock, updater_lock>>

\* _update_safely, users and tasks: one turn of the loop over the contests.
UpdateContests(p) ==
    /\ handler[p].pc = "contests"
    /\ LET contest == Head(handler[p].task_contests)
           rest == Tail(handler[p].task_contests)
       IN  \E ok \in BOOLEAN :
             Set(p, [Called(handler[p], UpdateContestCall(contest, FALSE),
                            ok, AfterCall(rest))
                       EXCEPT !.task_contests = IF ok THEN rest ELSE <<>>])
    /\ UNCHANGED <<entries, leftover, written, requests_lock, updater_lock>>

\* (LeaveUpdaterKeepsOnError is the mutant: an exception leaves the scope
\* held.)
LeaveUpdaterKeepsOnError(p) ==
    /\ handler[p].pc = "leave"
    /\ updater_lock' = IF handler[p].raised THEN updater_lock ELSE 0
    /\ Set(p, [handler[p] EXCEPT !.pc = "delete", !.success = TRUE,
                                 !.request = None,
                                 !.outcome = IF handler[p].raised THEN "error"
                                             ELSE IF @ = "inactive" THEN @
                                             ELSE "done",
                                 !.raised = FALSE, !.calls = <<>>,
                                 !.task_contests = <<>>,
                                 !.listed = NoManifest])
    /\ UNCHANGED <<entries, leftover, written, requests_lock>>

\* (LeaveUpdaterUncaught is the mutant: an exception of the dispatch is not
\* caught and ends the process.)
LeaveUpdaterUncaught(p) ==
    /\ handler[p].pc = "leave"
    /\ updater_lock' = 0
    /\ Set(p, [handler[p] EXCEPT
                 !.pc = IF handler[p].raised THEN "exit" ELSE "delete",
                 !.mainpc = IF handler[p].raised THEN "exit" ELSE @,
                 !.success = TRUE, !.request = None,
                 !.outcome = IF handler[p].raised THEN "error"
                             ELSE IF @ = "inactive" THEN @
                             ELSE "done",
                 !.raised = FALSE, !.calls = <<>>,
                 !.task_contests = <<>>, !.listed = NoManifest])
    /\ UNCHANGED <<entries, leftover, written, requests_lock>>

\* _act: the with block is left, by return or by exception; the exception
\* is logged and handle_request returns True.
LeaveUpdater(p) ==
    /\ handler[p].pc = "leave"
    /\ updater_lock' = 0
    /\ Set(p, [handler[p] EXCEPT !.pc = "delete", !.success = TRUE,
                                 !.request = None,
                                 !.outcome = IF handler[p].raised THEN "error"
                                             ELSE IF @ = "inactive" THEN @
                                             ELSE "done",
                                 !.raised = FALSE, !.calls = <<>>,
                                 !.task_contests = <<>>,
                                 !.listed = NoManifest])
    /\ UNCHANGED <<entries, leftover, written, requests_lock>>

\* ---------------------------------------------------------- _delete_request

\* _delete_request(path): nothing is done for a path that is not a file,
\* the process exits for a path outside the directory, and a failing
\* os.remove is logged.  Removing the lock file takes the lock from the
\* process that holds it.  The trace records how it ended: "removed",
\* "failed" (os.remove raised) or "missing" (not a file), with the path
\* and with how the handling of the file had gone.
DeleteRequest(p, keep) ==
    /\ handler[p].pc = "delete"
    /\ LET path == Abspath(Path(p))
           name == Basename(path)
           done(how) == [handler[p] EXCEPT
                           !.pc = "sleep",
                           !.trace =
                              Kept(keep, @,
                                   Append(@, <<how, path, handler[p].outcome>>))]
       IN  IF ~IsFile(path)
           THEN /\ Set(p, done("missing"))
                /\ UNCHANGED <<entries, leftover, written, requests_lock>>
           ELSE IF ~StartsWith(path, handler[p].dir)
           THEN /\ Set(p, [handler[p] EXCEPT !.pc = "exit", !.mainpc = "exit"])
                /\ UNCHANGED <<entries, leftover, written, requests_lock>>
           ELSE \E removes \in BOOLEAN :
                  IF ~removes
                  THEN /\ Set(p, done("failed"))
                       /\ UNCHANGED <<entries, leftover, written, requests_lock>>
                  ELSE IF name = LockFile
                  THEN /\ requests_lock' = 0
                       /\ Set(p, done("removed"))
                       /\ UNCHANGED <<entries, leftover, written>>
                  ELSE /\ entries' = [entries EXCEPT ![name] = "absent"]
                       /\ leftover' = leftover \ {name}
                       /\ written' = written \ {name}
                       /\ Set(p, done("removed"))
                       /\ UNCHANGED requests_lock
    /\ UNCHANGED updater_lock

\* (SleepBetween is the mutant: no sleep after the last file.)
SleepBetween(p, keep) ==
    /\ handler[p].pc = "sleep"
    /\ Set(p, [handler[p] EXCEPT
                 !.pc = "loop", !.index = @ + 1,
                 !.sleeps = IF handler[p].index + 1 < Len(handler[p].files_list)
                            THEN @ + 1 ELSE @])
    /\ UNCHANGED <<entries, leftover, written, requests_lock, updater_lock>>

\* sleep(REQUEST_COOLING), then the next turn of the loop.
Sleep(p, keep) ==
    /\ handler[p].pc = "sleep"
    /\ Set(p, [handler[p] EXCEPT !.pc = "loop", !.index = @ + 1,
                                 !.sleeps = Kept(keep, @, @ + 1)])
    /\ UNCHANGED <<entries, leftover, written, requests_lock, updater_lock>>

\* ------------------------------------------------------------ specifications

Steps(p, lists, contents, keep) ==
    \/ NotifierLoop(p)
    \/ ListRequests(p, keep)
    \/ LoopNext(p, keep)
    \/ LockRequests(p)
    \/ LockTimeout(p)
    \/ ReadRequest(p, contents)
    \/ Validate(p)
    \/ EnterUpdater(p)
    \/ UpdateSafely(p, lists)
    \/ GenerateTask(p)
    \/ UpdateContests(p)
    \/ LeaveUpdater(p)
    \/ DeleteRequest(p, keep)
    \/ Sleep(p, keep)

Producer(names) == \E f \in names : Create(f) \/ CloseWrite(f)

NoFiles == [f \in Names |-> "absent"]

\* One handler inside the loop of a notifier that delivers the event its
\* method is named for, so that process_IN_CLOSE_WRITE and with it
\* handle_existing_requests run (SpecMain has the watch that main() adds).
Init ==
    /\ entries = NoFiles
    /\ leftover = {}
    /\ written = {}
    /\ requests_lock = 0
    /\ updater_lock = 0
    /\ handler = [q \in Daemons |->
                    IF q = 1 THEN Watching(HandlerMethods) ELSE Unstarted]

Next == Steps(1, ManifestLists, Requests, TRUE) \/ Producer(NamesOne)

Spec == Init /\ [][Next]_vars

\* Two handlers, on the same directory and the same repositories.
InitTwo ==
    /\ entries = NoFiles
    /\ leftover = {}
    /\ written = {}
    /\ requests_lock = 0
    /\ updater_lock = 0
    /\ handler = [q \in Daemons |-> Watching(HandlerMethods)]

NextTwo ==
    \/ \E p \in Daemons : Steps(p, ManifestListsTwo, RequestsTwo, FALSE)
    \/ Producer(NamesTwo)

SpecTwo == InitTwo /\ [][NextTwo]_vars

\* The process as main() starts it: request files may already be there,
\* written or still being written.
InitMain ==
    /\ entries \in [Names -> {"absent", "open", "closed"}]
    /\ leftover = {f \in Names : entries[f] = "closed"}
    /\ written = {}
    /\ requests_lock = 0
    /\ updater_lock = 0
    /\ handler = [q \in Daemons |-> Unstarted]

\* The steps of the drain are not among these: they start from
\* process_IN_CLOSE_WRITE, and NotifierLoop never gets there (DrainNeverStarts).
NextMain == MyInit(1) \/ WatchForever(1) \/ NotifierLoop(1) \/ Producer(Names)

SpecMain == InitMain /\ [][NextMain]_vars

\* One handler as in Spec, on a directory where symbolic links are made too.
LinkNames == {<<49>>}

NextLink ==
    \/ Steps(1, ManifestListsTwo, Requests, TRUE)
    \/ Producer(NamesTwo)
    \/ \E f \in LinkNames : Link(f)

SpecLink == Init /\ [][NextLink]_vars

\* No step of handle_existing_requests is enabled.
DrainNeverStarts == \A p \in Daemons : handler[p].pc = "idle"

\* --------------------------------------------------------- claims: the drain

\* handle_existing_requests is about to return.
DrainEnd(p) ==
    /\ handler[p].pc = "loop"
    /\ handler[p].index = Len(handler[p].files_list)

\* How often the trace of the current drain holds an event of one of the
\* given kinds for the file of the given name.
Events(p, kinds, f) ==
    Cardinality({i \in DOMAIN handler[p].trace :
                   /\ handler[p].trace[i][1] \in kinds
                   /\ handler[p].trace[i][2] = Join(REQUESTS_DIR, f)})

\* handle_request is never called twice on a file within one drain.
HandledAtMostOnce(p) ==
    \A f \in Names : Events(p, {"handle"}, f) <= 1

LexBefore(a, b) ==
    \E k \in 0 .. Len(a) :
        /\ k <= Len(b)
        /\ \A i \in 1 .. k : a[i] = b[i]
        /\ IF k = Len(a) THEN k < Len(b)
           ELSE k < Len(b) /\ a[k + 1] < b[k + 1]

Deletions == {"removed", "failed", "missing"}

\* C2: within a drain the events are handle, delete, handle, delete, ...:
\* each file's handling is followed by its own deletion before the next
\* file's handling starts, and the files come in ascending lexicographic
\* order of their names.
C2_LexicographicOrder ==
    \A p \in Daemons :
        LET trace == handler[p].trace
        IN  /\ \A k \in DOMAIN trace :
                 IF k % 2 = 1
                 THEN trace[k][1] = "handle"
                 ELSE /\ trace[k][1] \in Deletions
                      /\ trace[k][2] = trace[k - 1][2]
            /\ \A i, j \in DOMAIN trace :
                 (i < j /\ i % 2 = 1 /\ j % 2 = 1) =>
                     LexBefore(Basename(trace[i][2]), Basename(trace[j][2]))
            /\ handler[p].pc \in {"lock", "read", "validate", "act", "dispatch",
                                  "generate", "contests", "leave", "delete"}
                 => Len(trace) % 2 = 1
            /\ handler[p].pc \in {"loop", "sleep"} => Len(trace) % 2 = 0

\* The second file of a drain is being handled: "10" came before "9".
C2_Witness ==
    /\ Len(handler[1].trace) = 3
    /\ handler[1].trace[1] = <<"handle", Join(REQUESTS_DIR, <<49, 48>>)>>
    /\ handler[1].trace[3] = <<"handle", Join(REQUESTS_DIR, <<57>>)>>

\* ------------------------------------------------- claims: the watch, main()

\* The notifier has delivered every event and the handler is not draining.
Quiet(p) ==
    /\ handler[p].mainpc = "loop"
    /\ handler[p].pc = "idle"
    /\ handler[p].events = <<>>

\* C3 as claimed: every file whose writing ended while the daemon was in
\* its watch loop brings a drain, so once the daemon has nothing left to
\* deliver and is not draining, every such file has been handled.
C3_WrittenFilesAreDrained ==
    \A p \in Daemons : Quiet(p) => written = {}

\* C4 as claimed: when the process enters the watch loop, one drain has
\* taken the request files that were there when it started.
C4_DrainsBeforeWatching ==
    \A p \in Daemons : handler[p].mainpc = "loop" => leftover = {}

\* ------------------------------------------------------ claims: the dispatch

\* The daemon is inside the with block of _act.
InDispatch(p) == handler[p].pc \in {"dispatch", "generate", "contests", "leave"}

\* _update_safely has ended, by return or by exception.
DispatchEnd(p) == handler[p].pc = "leave"

\* C5: the scope is held by a daemon exactly while it is inside the with
\* block, which it enters once per request; every call on the updater is
\* made while the scope is held, and the scope is released when the block
\* is left, by exception too.
C5_CallsInsideOneScope ==
    \A p \in Daemons :
        /\ (updater_lock = p) <=> InDispatch(p)
        /\ handler[p].calls # <<>> => updater_lock = p
        /\ handler[p].scopes <= 1
        /\ InDispatch(p) => handler[p].scopes = 1

\* A dispatch that made calls ended with an exception, and the scope is free
\* while the request file is about to be deleted.
C5_Witness ==
    /\ handler[1].pc = "delete"
    /\ handler[1].outcome = "error"
    /\ handler[1].scopes = 1
    /\ updater_lock = 0

\* C6: two daemons are never inside a dispatch at the same time, and calls
\* are only made by the one that holds the scope.
C6_OneDispatchAtATime ==
    /\ ~(InDispatch(1) /\ InDispatch(2))
    /\ \A p \in Daemons : handler[p].calls # <<>> => updater_lock = p

\* Daemon 1 is in the middle of a dispatch while daemon 2 waits to enter.
C6_Witness ==
    /\ handler[1].pc = "contests"
    /\ handler[1].calls # <<>>
    /\ handler[2].pc = "act"

\* The request being dispatched asks for the given repository type.
Dispatching(p, repo_type) ==
    /\ InDispatch(p)
    /\ handler[p].request.repo[1] = repo_type

\* C7: for contests/X with X active, the calls are exactly
\* update_contest(X, update=True, generate_new=True, update_users=True).
C7_ActiveContestUpdatedOnce ==
    \A p \in Daemons :
        (Dispatching(p, "contests")
         /\ handler[p].request.repo \in ACTIVE_CONTESTS) =>
            \/ handler[p].pc = "dispatch" /\ handler[p].calls = <<>>
            \/ /\ DispatchEnd(p)
               /\ handler[p].calls =
                    <<[op |-> "update_contest", id |-> handler[p].request.repo,
                       update |-> TRUE, generate_new |-> TRUE,
                       update_users |-> TRUE]>>

C7_Witness ==
    /\ DispatchEnd(1)
    /\ handler[1].request.repo = ContestA
    /\ Len(handler[1].calls) = 1
    /\ ~handler[1].raised

\* update_contest(C, update=True, generate_new=True, update_users=False)
\* for an active contest C.
IsContestUpdate(call) ==
    /\ call.op = "update_contest"
    /\ call.id \in ACTIVE_CONTESTS
    /\ call = [op |-> "update_contest", id |-> call.id, update |-> TRUE,
               generate_new |-> TRUE, update_users |-> FALSE]

\* The calls from the given place on are updates of distinct active
\* contests, none with its users.
DistinctContestUpdates(calls, from) ==
    /\ \A i \in from .. Len(calls) : IsContestUpdate(calls[i])
    /\ \A i, j \in from .. Len(calls) : calls[i].id = calls[j].id => i = j

Updated(calls, from) == {calls[i].id : i \in from .. Len(calls)}

\* The calls of a users request: update_users first, then contests.
UsersCalls(calls) ==
    /\ calls # <<>>
    /\ calls[1] = [op |-> "update_users"]
    /\ DistinctContestUpdates(calls, 2)

\* C8 as claimed: a users request makes one update_users call and then one
\* update_contest(C, True, True, False) call for each active contest C.
C8_UsersThenEveryContest ==
    \A p \in Daemons :
        (Dispatching(p, "users") /\ DispatchEnd(p)) =>
            /\ UsersCalls(handler[p].calls)
            /\ Updated(handler[p].calls, 2) = ACTIVE_CONTESTS

\* C8, amended: the calls of a users request are update_users and then
\* update_contest(C, True, True, False) for distinct active contests C; when
\* no call raised, every active contest has had its call.
C8_UsersThenEveryContestUnlessCallFails ==
    \A p \in Daemons :
        Dispatching(p, "users") =>
            IF handler[p].pc = "dispatch" THEN handler[p].calls = <<>>
            ELSE /\ UsersCalls(handler[p].calls)
                 /\ (DispatchEnd(p) /\ ~handler[p].raised) =>
                        Updated(handler[p].calls, 2) = ACTIVE_CONTESTS
                 /\ handler[p].raised => DispatchEnd(p)

C8_Witness ==
    /\ Dispatching(1, "users")
    /\ DispatchEnd(1)
    /\ ~handler[1].raised
    /\ Len(handler[1].calls) = 1 + Cardinality(ACTIVE_CONTESTS)

\* C9 as claimed, for the runs in which no call raises: when the manifests
\* of A and B list the task and that of C does not, the calls are
\* generate_task(T, True, True), then one update of A and one of B.
C9_TaskGeneratedThenItsContests ==
    \A p \in Daemons :
        (/\ Dispatching(p, "tasks")
         /\ DispatchEnd(p)
         /\ ~handler[p].raised
         /\ handler[p].listed[ContestA] >= 1
         /\ handler[p].listed[ContestB] >= 1
         /\ handler[p].listed[ContestC] = 0) =>
            /\ Len(handler[p].calls) = 3
            /\ handler[p].calls[1] =
                 [op |-> "generate_task", id |-> handler[p].request.repo,
                  update |-> TRUE, allow_clone |-> TRUE]
            /\ DistinctContestUpdates(handler[p].calls, 2)
            /\ Updated(handler[p].calls, 2) = {ContestA, ContestB}

\* The request targets a contest that is not active, or a task that the
\* manifests read list nowhere.
Inactive(p) ==
    \/ /\ Dispatching(p, "contests")
       /\ handler[p].request.repo \notin ACTIVE_CONTESTS
    \/ /\ Dispatching(p, "tasks")
       /\ ~handler[p].raised
       /\ \A c \in ACTIVE_CONTESTS : handler[p].listed[c] = 0

\* After _update_safely has started on an inactive target no call has been
\* made, and it ends at once.
InactiveSkipped(p) ==
    (Inactive(p) /\ handler[p].pc # "dispatch") =>
        /\ DispatchEnd(p)
        /\ handler[p].calls = <<>>
        /\ handler[p].outcome = "inactive"

\* _delete_request has returned for the file of a request that was skipped
\* as inactive, with one of the given results.
SkippedThenDeleted(p, results) ==
    (handler[p].pc = "sleep" /\ handler[p].outcome = "inactive") =>
        /\ handler[p].trace # <<>>
        /\ handler[p].trace[Len(handler[p].trace)][1] \in results
        /\ handler[p].trace[Len(handler[p].trace)][2] = Path(p)

LastEvent(p) == handler[p].trace[Len(handler[p].trace)]

\* _delete_request has returned, with one of the given results, for the
\* file whose handling ended in one of the given ways.
DeletedAfter(p, outcomes, results) ==
    (handler[p].pc = "sleep" /\ handler[p].outcome \in outcomes) =>
        /\ handler[p].trace # <<>>
        /\ LastEvent(p)[1] \in results
        /\ LastEvent(p)[2] = Path(p)

\* The content is not a mapping, or lacks a string user, or lacks a string
\* repo, or its repo starts with a segment that is no repository type.
Rejected(request) ==
    \/ request.type # "dict"
    \/ request.user \in {Missing, NonString}
    \/ request.repo \in {Missing, NonString}
    \/ request.repo[1] \notin {"tasks", "contests", "users"}

\* Such a request never gets to _act; the handling of a request that failed
\* validation opens no scope and makes no call.
RejectedBeforeDispatch(p) ==
    /\ (handler[p].pc = "act" \/ InDispatch(p)) => ~Rejected(handler[p].request)
    /\ handler[p].outcome = "invalid" =>
         /\ handler[p].pc \in {"delete", "sleep", "loop"}
         /\ handler[p].scopes = 0
         /\ handler[p].calls = <<>>
         /\ updater_lock # p
         /\ ~handler[p].success

Realpath(path) ==
    IF entries[Basename(path)] = "link" THEN Elsewhere(Basename(path))
    ELSE path

\* _delete_request is about to run on a path that resolves to a place
\* outside the requests directory.
DeletingOutside(p) ==
    /\ handler[p].pc = "delete"
    /\ ~StartsWith(Realpath(Path(p)), handler[p].dir)

\* C12 as claimed: _delete_request on a path that resolves outside the
\* requests directory ends the process and removes nothing.
C12_OutsideTargetExits ==
    [][\A p \in Daemons :
          (DeletingOutside(p) /\ handler'[p].pc # "delete") =>
              /\ handler'[p].mainpc = "exit"
              /\ entries' = entries]_vars

\* How the handling of a request can fail: the lock is not acquired, the
\* file is not read or parsed, the content is not valid, the dispatch
\* raises.
Failures == {"timeout", "unread", "invalid", "error"}

\* The process has not been ended, by sys.exit or by an exception that
\* nothing caught.
Running(p) == handler[p].mainpc # "exit"

\* The trace of the drain holds, for each file of files_list in order, its
\* handle event and then its delete event, up to the file the drain is at:
\* whatever the outcome recorded for a file, the next one is taken.
InOrder(p) ==
    LET trace == handler[p].trace
        files == handler[p].files_list
    IN  /\ Len(trace) <= 2 * Len(files)
        /\ \A i \in DOMAIN trace :
             /\ trace[i][2] = files[(i + 1) \div 2]
             /\ (i % 2 = 1) <=> (trace[i][1] = "handle")
        /\ handler[p].pc = "loop" => Len(trace) = 2 * handler[p].index
        /\ handler[p].pc = "sleep" => Len(trace) = 2 * handler[p].index + 2

AllTaken(p) ==
    DrainEnd(p) => Len(handler[p].trace) = 2 * Len(handler[p].files_list)

\* C14: a request whose lock acquisition timed out is not read, not
\* dispatched and gets no call; the process goes on, and the drain takes
\* the files after it in order, down to the last.
C14_TimeoutFailsOneRequest ==
    \A p \in Daemons :
        /\ handler[p].outcome = "timeout" =>
             /\ handler[p].pc \in {"delete", "sleep", "loop"}
             /\ handler[p].request = None
             /\ ~handler[p].success
             /\ handler[p].scopes = 0
             /\ handler[p].calls = <<>>
             /\ Running(p)
        /\ InOrder(p)
        /\ AllTaken(p)

\* The first file of a drain met a lock timeout, and the drain has ended
\* after handling the second file too.
C14_Witness ==
    /\ DrainEnd(1)
    /\ Len(handler[1].trace) = 4
    /\ handler[1].trace[2][3] = "timeout"
    /\ handler[1].trace[4][3] = "done"

\* ------------------------------------------------------ claims: the cooling

\* C15 as claimed: a drain of K >= 1 files has slept K-1 times when it ends.
C15_SleepsBetweenFiles ==
    \A p \in Daemons :
        (DrainEnd(p) /\ Len(handler[p].files_list) >= 1) =>
            handler[p].sleeps = Len(handler[p].files_list) - 1

\* C15, amended: the drain sleeps once after the handling and deletion of
\* every file, the last included, and never before the first: it has slept
\* as often as it has finished files, K times when it ends.
C15_SleepsAfterEveryFile ==
    \A p \in Daemons :
        /\ handler[p].sleeps = handler[p].index
        /\ handler[p].pc = "sleep" =>
             Len(handler[p].trace) = 2 * handler[p].sleeps + 2
        /\ DrainEnd(p) => handler[p].sleeps = Len(handler[p].files_list)

\* A drain of one file ends, having slept once.
C15_Witness ==
    /\ DrainEnd(1)
    /\ Len(handler[1].files_list) = 1
    /\ handler[1].sleeps = 1

\* ------------------------------------------------- claims: drains in sequence

\* The file of this name is being written, or no handle_request has been
\* called on it since it was written.
Untouched(f) == entries[f] = "open" \/ f \in written \cup leftover

\* The daemon calls handle_request on the next path of its list.
HandleStarts(p) == handler[p].pc = "loop" /\ handler'[p].pc = "lock"

\* C16 as claimed: handle_request is never called on a request file on
\* which a handling attempt has been made before, whether or not the
\* removal that followed it succeeded.
C16_NeverReprocessed ==
    [][\A p \in Daemons :
          HandleStarts(p) =>
              (IsFile(Path(p)) => Untouched(Basename(Path(p))))]_vars

\* The names of the files the drain has in its list.
Enumerated(p) ==
    {Basename(handler[p].files_list[i]) : i \in DOMAIN handler[p].files_list}

\* The daemon is inside handle_existing_requests, past the listing.
Draining(p) == handler[p].pc \notin {"idle", "list", "exit"}

\* C17: a drain starts only when no drain of the process is running; the
\* files it handles are those it listed when it started, so a file that
\* appears later is not handled by it; and when it ends, a file whose
\* writing ended meanwhile and that it did not list has its notification
\* waiting, which starts the next drain.
C17_DrainTakesWhatItListed ==
    \A p \in Daemons :
        /\ handler[p].pc \in {"idle", "list"} =>
             /\ handler[p].files_list = <<>>
             /\ handler[p].trace = <<>>
             /\ handler[p].index = 0
        /\ Draining(p) =>
             /\ Enumerated(p) = handler[p].present
             /\ InOrder(p)
             /\ \A f \in Names \ handler[p].present :
                    Events(p, {"handle"} \cup Deletions, f) = 0
        /\ AllTaken(p)
        /\ (DrainEnd(p) /\ written # {}) => handler[p].events # <<>>

\* A drain ends that has handled the one file it listed; another file was
\* written meanwhile, is still there, and its notification waits.
C17_Witness ==
    /\ DrainEnd(1)
    /\ Len(handler[1].files_list) = 1
    /\ \E f \in written :
         /\ f \notin handler[1].present
         /\ entries[f] = "closed"
    /\ handler[1].events = <<"IN_CLOSE_WRITE">>

\* ------------------------------------------------------ claims: the two locks

\* _delete_request returns after going through os.remove or past it.
DeleteReturns(p) == handler[p].pc = "delete" /\ handler'[p].pc = "sleep"

\* C18 as claimed: the lock file of the requests directory is never among
\* the files a drain lists, and no _delete_request of a drain takes it
\* away from the process that holds the lock.
C18_LockFileIsSkipped ==
    /\ [](\A p \in Daemons : LockFile \notin Enumerated(p))
    /\ [][\A p \in Daemons :
             DeleteReturns(p) => requests_lock' = requests_lock]_vars

\* C19: a daemon holds the lock of the requests directory exactly while it
\* is at the read of a request file, having acquired it before the file is
\* opened; it does not hold it once the read has ended, in success or in
\* failure, so not while it validates, dispatches, deletes or sleeps, and
\* never together with the updater's scope or around a call.
C19_ReadLockOnlyAroundRead ==
    \A p \in Daemons :
        /\ (requests_lock = p) <=> (handler[p].pc = "read")
        /\ handler[p].pc = "read" => handler[p].request = None
        /\ ~(requests_lock = p /\ updater_lock = p)
        /\ handler[p].calls # <<>> => requests_lock # p

\* A read has failed and the file is about to be deleted, the lock free.
C19_Witness ==
    /\ handler[1].pc = "delete"
    /\ handler[1].outcome = "unread"
    /\ requests_lock = 0

\* ------------------------------------------- claims: a call that fails midway

\* A call has raised: _update_safely has ended there, so that no further
\* call follows.  Once the block is left the scope is free, handle_request
\* has returned True, and the drain goes to _delete_request and on.
FailedCallEndsDispatch(p) ==
    /\ handler[p].raised => DispatchEnd(p)
    /\ handler[p].outcome = "error" =>
         /\ handler[p].pc \in {"delete", "sleep", "loop"}
         /\ handler[p].calls = <<>>
         /\ updater_lock # p
         /\ handler[p].success
    /\ HandledAtMostOnce(p)

====
